---------------------------- MODULE Spec2Model ----------------------------
(***************************************************************************)
(* The execution layer of apscheduler: BaseExecutor (executors/base.py),   *)
(* the blocking Job Runner run_job built by generate_run_job_closure, the  *)
(* suspending runner run_coroutine_job (executors/base_py3.py) and the     *)
(* AsyncIOExecutor backend (executors/asyncio.py).                         *)
(*                                                                         *)
(* Submitter threads call submit_job concurrently; every admitted          *)
(* submission is run by a backend and finished by a completion callback.   *)
(* Two backends are modelled: "pool", a worker pool that honours the        *)
(* signatures of _run_job_success / _run_job_error declared in base.py, and *)
(* "asyncio", AsyncIOExecutor exactly as written.  SpecFaults adds the      *)
(* trollius fallback of AsyncIOExecutor, a job store that fails in          *)
(* add_job_submission and a call of shutdown; SpecRepeatedCompletion adds a *)
(* completion that is delivered twice.                                      *)
(***************************************************************************)
EXTENDS Integers, Sequences, FiniteSets

\* ------------------------------------------------------------------ bounds
NumThreads == 2          \* concurrent callers of submit_job
MaxSubmissions == 3      \* submission ids the job store hands out
MaxRunTimes == 3         \* longest run_times batch of one submission

Threads == 1..NumThreads
SubIds == 1..MaxSubmissions

\* The clock (seconds) and the scheduled instants a batch may hold.
ClockValues == {10, 20}
RunTimes == {5, 10, 15}

\* ------------------------------------------------------------------- jobs
\* misfire_grace_time is a set: {} stands for None, {g} for g seconds.
\* coroutine tells whether job.func is a native coroutine function; only
\* AsyncIOExecutor reads it (base.py's own iscoroutinefunction is the fallback
\* that returns False, because base_py3 exports no
\* generate_run_coroutine_job_closure).
Jobs ==
  [a |-> [id |-> "a", max_instances |-> 1, misfire_grace_time |-> {5},
          coroutine |-> TRUE],
   b |-> [id |-> "b", max_instances |-> 2, misfire_grace_time |-> {},
          coroutine |-> FALSE]]

JobIds == DOMAIN Jobs

Backends == {"pool", "asyncio"}

\* AsyncIOExecutor where `from asyncio import ...` fails at import: the module
\* falls back to trollius and sets run_coroutine_job = None.
TrolliusBackend == "asyncio_trollius"

AsyncIOBackends == {"asyncio", TrolliusBackend}

NoOwner == <<>>

VARIABLES
  backend,     \* which concrete executor class this executor is
  shutdown,    \* "no", or the wait argument of the shutdown call made
  now,         \* datetime.now(utc), in seconds
  lock,        \* self._lock: NoOwner or the holder
  instances,   \* self._instances: job id -> list of submission ids
  pc,          \* per submitter thread: position inside submit_job
  tjob,        \* per submitter thread: the job argument of the call
  nextId,      \* job store: next submission id of add_job_submission
  store,       \* job store: per submission, the states written, in order
  sub,         \* per submission: backend / runner / callback position
  dispatched,  \* per submission: events given to scheduler._dispatch_event
  releases     \* per submission: removals from self._instances performed

vars == <<backend, shutdown, now, lock, instances, pc, tjob, nextId, store, sub,
          dispatched, releases>>

\* ------------------------------------------------------------ pure helpers
RECURSIVE SeqsUpTo(_, _)
SeqsUpTo(S, n) ==
  IF n = 0 THEN {<<>>}
  ELSE LET shorter == SeqsUpTo(S, n - 1)
       IN shorter \cup {Append(q, x) : q \in shorter, x \in S}

\* The scheduler hands over the due run-times of a job in ascending order.
IsAscending(q) == \A k \in 1..(Len(q) - 1) : q[k] < q[k + 1]

RunTimeLists ==
  {q \in SeqsUpTo(RunTimes, MaxRunTimes) : Len(q) >= 1 /\ IsAscending(q)}

\* Workload bound: the first submission is any batch of RunTimeLists; a batch
\* of several run-times is submitted alone, and every follow-up submission is
\* a single run-time due at the earliest instant.
FollowUpRunTimes == {q \in RunTimeLists : \A r \in RunTimes : q[1] <= r /\ Len(q) = 1}

\* collections.defaultdict(lambda: []): reading a missing key inserts [].
DefaultGet(inst, job_id) ==
  IF job_id \in DOMAIN inst THEN inst[job_id] ELSE <<>>

DefaultTouch(inst, job_id) ==
  IF job_id \in DOMAIN inst THEN inst
  ELSE [k \in DOMAIN inst \cup {job_id} |->
          IF k = job_id THEN <<>> ELSE inst[k]]

Contains(seq, x) == \E k \in 1..Len(seq) : seq[k] = x

Last(seq) == seq[Len(seq)]

\* list.remove(x): drops the first occurrence of x.
ListRemove(seq, x) ==
  LET k == CHOOSE m \in 1..Len(seq) :
             seq[m] = x /\ \A n \in 1..(m - 1) : seq[n] # x
  IN SubSeq(seq, 1, k - 1) \o SubSeq(seq, k + 1, Len(seq))

JobExecutionEvent(code, job_id, run_time) ==
  [code |-> code, job_id |-> job_id, run_time |-> run_time]


\* ------------------------------------------------------------- initial state
NoSubmission ==
  [job |-> "none", run_times |-> <<>>, phase |-> "none", i |-> 0,
   events |-> <<>>, calls |-> <<>>]

Init ==
  /\ backend \in Backends
  /\ shutdown = "no"
  /\ now = 10
  /\ lock = NoOwner
  /\ instances = [k \in {} |-> <<>>]
  /\ pc = [t \in Threads |-> "idle"]
  /\ tjob = [t \in Threads |-> "none"]
  /\ nextId = 1
  /\ store = [s \in SubIds |-> <<>>]
  /\ sub = [s \in SubIds |-> NoSubmission]
  /\ dispatched = [s \in SubIds |-> <<>>]
  /\ releases = [s \in SubIds |-> 0]

\* ---------------------------------------------------------------- the clock
Tick ==
  /\ \E t \in ClockValues : t > now /\ now' = t
  /\ UNCHANGED <<backend, shutdown, lock, instances, pc, tjob, nextId, store, sub,
                 dispatched, releases>>

\* ---------------------------------------------------------------- submit_job
\* Mutant of LockAvailable: a lock that excludes nobody.
LockAvailable_NoExclusion(owner) == TRUE

\* `with self._lock:` lets a thread in only while nobody holds the lock.
LockAvailable(owner) == owner = NoOwner

\* Mutant of WithExit: leaving the block keeps the lock.
WithExit_KeepsLock(owner) == owner

\* The end of `with self._lock:`, by return or by exception: the lock is free.
WithExit(owner) == NoOwner

\* Mutant of CeilingReached: the comparison off by one.
CeilingReached_OffByOne(inst, job) ==
  Len(DefaultGet(inst, job.id)) > job.max_instances

\* Mutant of CeilingReached: the ceiling is taken one too low.
CeilingReached_OneEarly(inst, job) ==
  Len(DefaultGet(inst, job.id)) >= job.max_instances - 1

\* `len(self._instances[job.id]) >= job.max_instances`
CeilingReached(inst, job) == Len(DefaultGet(inst, job.id)) >= job.max_instances

BatchSubmitted == \E s \in SubIds : Len(sub[s].run_times) > 1

\* A caller enters submit_job and takes the executor lock.
SubmitJob_Enter(t, j) ==
  /\ pc[t] = "idle"
  /\ nextId <= MaxSubmissions
  /\ ~BatchSubmitted
  /\ LockAvailable(lock)
  /\ lock' = <<"submit_job", t>>
  /\ pc' = [pc EXCEPT ![t] = "check"]
  /\ tjob' = [tjob EXCEPT ![t] = j]
  /\ UNCHANGED <<backend, shutdown, now, instances, nextId, store, sub, dispatched,
                 releases>>

\* The ceiling check; MaxInstancesReachedError leaves the `with` block.
SubmitJob_Check(t) ==
  /\ pc[t] = "check"
  /\ LET job == Jobs[tjob[t]]
         touched == DefaultTouch(instances, job.id)
     IN /\ instances' = touched
        /\ IF CeilingReached(touched, job)
           THEN /\ lock' = WithExit(lock)
                /\ pc' = [pc EXCEPT ![t] = "idle"]
                /\ tjob' = [tjob EXCEPT ![t] = "none"]
           ELSE /\ pc' = [pc EXCEPT ![t] = "prepare"]
                /\ UNCHANGED <<lock, tjob>>
  /\ UNCHANGED <<backend, shutdown, now, nextId, store, sub, dispatched, releases>>

\* What _do_submit_job leaves behind for the backend to run.  With trollius a
\* coroutine function makes _do_submit_job raise: no future, no callback.
DoSubmitJob(job, run_times) ==
  [job |-> job.id, run_times |-> run_times,
   phase |-> IF backend = "pool" THEN "run_job"
             ELSE IF ~job.coroutine THEN "executor"
             ELSE IF backend = TrolliusBackend THEN "dispatch_raised"
             ELSE "task",
   i |-> 1, events |-> <<>>, calls |-> <<>>]

\* _prepare_job_submission: the record is added, the id appended, the backend
\* asked to run the job.  The lock is still held when _do_submit_job is over.
SubmitJob_Prepare(t, run_times) ==
  /\ pc[t] = "prepare"
  /\ nextId <= MaxSubmissions
  /\ nextId > 1 => run_times \in FollowUpRunTimes
  /\ LET job == Jobs[tjob[t]]
         job_submission_id == nextId
     IN /\ nextId' = nextId + 1
        /\ store' = [store EXCEPT ![job_submission_id] = <<"pending">>]
        /\ instances' = [DefaultTouch(instances, job.id) EXCEPT
                           ![job.id] = Append(@, job_submission_id)]
        /\ sub' = [sub EXCEPT
                     ![job_submission_id] = DoSubmitJob(job, run_times)]
  /\ pc' = [pc EXCEPT ![t] = "exit"]
  /\ tjob' = [tjob EXCEPT ![t] = "none"]
  /\ UNCHANGED <<backend, shutdown, now, lock, dispatched, releases>>

\* submit_job leaves the `with` block: _prepare_job_submission has returned, or
\* _do_submit_job has raised and the exception goes on to the caller.
SubmitJob_Exit(t) ==
  /\ pc[t] = "exit"
  /\ lock' = WithExit(lock)
  /\ pc' = [pc EXCEPT ![t] = "idle"]
  /\ UNCHANGED <<backend, shutdown, now, instances, tjob, nextId, store, sub,
                 dispatched, releases>>


\* ------------------------------------------------- run_job (blocking runner)
\* Mutant of IsMisfire: a run-time exactly at the grace limit counts as missed.
IsMisfire_AtGrace(job, run_time, clock) ==
  \E grace_time \in job.misfire_grace_time : clock - run_time >= grace_time

\* `difference > grace_time`, skipped when misfire_grace_time is None.
IsMisfire(job, run_time, clock) ==
  \E grace_time \in job.misfire_grace_time : clock - run_time > grace_time

\* Mutant of RecordEvent: the event is put in front of the list.
RecordEvent_Prepend(events, event) == <<event>> \o events

\* events.append(JobExecutionEvent(...))
RecordEvent(events, event) == Append(events, event)

\* The loop variable moves on; after the last run-time run_job returns events.
NextRunTime(r) ==
  IF r.i + 1 > Len(r.run_times)
  THEN [r EXCEPT !.i = r.i + 1, !.phase = "returned"]
  ELSE [r EXCEPT !.i = r.i + 1]

\* Head of one loop iteration: the misfire check, then the record is set to
\* "running".  The job store's update may raise, which ends run_job with an
\* exception: the future then holds the exception, not the events gathered so
\* far (the record keeps them to tell what the runner had produced).
RunJob_Begin(s, store_raises) ==
  /\ sub[s].phase = "run_job"
  /\ LET r == sub[s]
         job == Jobs[r.job]
         run_time == r.run_times[r.i]
     IN IF IsMisfire(job, run_time, now)
        THEN /\ ~store_raises
             /\ sub' = [sub EXCEPT ![s] = NextRunTime(
                          [r EXCEPT !.events = RecordEvent(@,
                             JobExecutionEvent("missed", job.id, run_time))])]
             /\ UNCHANGED store
        ELSE IF store_raises
        THEN /\ sub' = [sub EXCEPT ![s] = [r EXCEPT !.phase = "raised"]]
             /\ UNCHANGED store
        ELSE /\ store' = [store EXCEPT ![s] = Append(@, "running")]
             /\ sub' = [sub EXCEPT ![s] = [r EXCEPT !.phase = "calling"]]
  /\ UNCHANGED <<backend, shutdown, now, lock, instances, pc, tjob, nextId,
                 dispatched, releases>>

\* The state run_job writes after the callable: "failure" in the except
\* branch, "success" in the else branch.
OutcomeState(func_raises) == IF func_raises THEN "failure" ELSE "success"

OutcomeCode(func_raises) == IF func_raises THEN "error" ELSE "executed"

\* Mutant of CallOutcome: no except clause, the callable's exception leaves
\* run_job.
CallOutcome_Propagates(r, job, func_raises) ==
  IF func_raises
  THEN [r EXCEPT !.phase = "raised",
                 !.calls = Append(@, [i |-> r.i, raised |-> TRUE])]
  ELSE NextRunTime(
         [r EXCEPT !.phase = "run_job",
                   !.calls = Append(@, [i |-> r.i, raised |-> FALSE]),
                   !.events = RecordEvent(@, JobExecutionEvent(
                      "executed", job.id, r.run_times[r.i]))])

\* The try/except/else around job.func(*args, **kwargs): either branch appends
\* one event and the loop goes on.  calls notes the run-time index and whether
\* the callable raised.
CallOutcome(r, job, func_raises) ==
  NextRunTime(
    [r EXCEPT !.phase = "run_job",
              !.calls = Append(@, [i |-> r.i, raised |-> func_raises]),
              !.events = RecordEvent(@, JobExecutionEvent(
                 OutcomeCode(func_raises), job.id, r.run_times[r.i]))])

\* job.func returns or raises inside run_job.
RunJob_End(s, func_raises) ==
  /\ sub[s].phase = "calling"
  /\ LET r == sub[s]
         job == Jobs[r.job]
     IN /\ sub' = [sub EXCEPT ![s] = CallOutcome(r, job, func_raises)]
        /\ store' = [store EXCEPT ![s] = Append(@, OutcomeState(func_raises))]
  /\ UNCHANGED <<backend, shutdown, now, lock, instances, pc, tjob, nextId,
                 dispatched, releases>>

\* run_job as a function of its inputs, for a clock that stands at `clock` and
\* a callable that raises on every call or on none: the events it returns and
\* the states it writes to the submission record, from run-time k on.
RECURSIVE RunJobFrom(_, _, _, _, _)
RunJobFrom(job, run_times, clock, func_raises, k) ==
  IF k > Len(run_times) THEN [events |-> <<>>, states |-> <<>>]
  ELSE LET rest == RunJobFrom(job, run_times, clock, func_raises, k + 1)
       IN IF IsMisfire(job, run_times[k], clock)
          THEN [events |-> <<JobExecutionEvent("missed", job.id, run_times[k])>>
                             \o rest.events,
                states |-> rest.states]
          ELSE [events |-> <<JobExecutionEvent(OutcomeCode(func_raises), job.id,
                                               run_times[k])>> \o rest.events,
                states |-> <<"running", OutcomeState(func_raises)>>
                             \o rest.states]

\* ------------------------------------------ _run_job_success / _run_job_error
\* Mutant of ReleaseInstance: the lock block leaves the id where it is.
ReleaseInstance_Keeps(inst, job_id, job_instance_id) ==
  DefaultTouch(inst, job_id)

\* The `with self._lock:` block of both handlers: remove the id, delete an
\* emptied entry.  list.remove of a non-member raises ValueError after the
\* defaultdict has inserted the key.
ReleaseInstance(inst, job_id, job_instance_id) ==
  LET touched == DefaultTouch(inst, job_id)
      left == ListRemove(touched[job_id], job_instance_id)
  IN IF ~Contains(touched[job_id], job_instance_id) THEN touched
     ELSE IF Len(left) = 0
     THEN [k \in DOMAIN touched \ {job_id} |-> touched[k]]
     ELSE [touched EXCEPT ![job_id] = left]

\* The worker pool's done-callback: _run_job_success(job.id, id, events) when
\* the future holds run_job's events, _run_job_error(job.id, exc, id, tb) when
\* it holds an exception.
PoolCallback(s, outcome) ==
  /\ backend = "pool"
  /\ sub[s].phase = outcome

\* Mutant of RemoveRaises: removal of a non-member passes silently.
RemoveRaises_Never(seq, x) == FALSE

\* list.remove(x) raises ValueError when x is not in the list.
RemoveRaises(seq, x) == ~Contains(seq, x)

\* The ValueError leaves the handler: nothing after the lock block runs.
HandlerRelease(s, from, to) ==
  /\ PoolCallback(s, from)
  /\ LockAvailable(lock)
  /\ instances' = ReleaseInstance(instances, sub[s].job, s)
  /\ IF RemoveRaises(DefaultGet(instances, sub[s].job), s)
     THEN /\ sub' = [sub EXCEPT ![s].phase = "ValueError"]
          /\ UNCHANGED releases
     ELSE /\ releases' = [releases EXCEPT ![s] = @ + 1]
          /\ sub' = [sub EXCEPT ![s].phase = to]
  /\ UNCHANGED <<backend, shutdown, now, lock, pc, tjob, nextId, store, dispatched>>

\* _run_job_success, lines 109-112.
RunJobSuccess_Release(s) == HandlerRelease(s, "returned", "success_released")

\* The state _run_job_success writes: state="success", whatever the events.
SuccessHandlerState(events) == "success"

\* _run_job_success, lines 113-115.
RunJobSuccess_Finish(s) ==
  /\ sub[s].phase = "success_released"
  /\ store' = [store EXCEPT ![s] = Append(@, SuccessHandlerState(sub[s].events))]
  /\ dispatched' = [dispatched EXCEPT ![s] = @ \o sub[s].events]
  /\ sub' = [sub EXCEPT ![s].phase = "finished"]
  /\ UNCHANGED <<backend, shutdown, now, lock, instances, pc, tjob, nextId,
                 releases>>

\* _run_job_error, lines 119-122.
RunJobError_Release(s) == HandlerRelease(s, "raised", "error_released")

\* _run_job_error, lines 123-126: the record is set to "failure", the error is
\* logged, nothing is dispatched.
RunJobError_Finish(s) ==
  /\ sub[s].phase = "error_released"
  /\ store' = [store EXCEPT ![s] = Append(@, "failure")]
  /\ sub' = [sub EXCEPT ![s].phase = "finished"]
  /\ UNCHANGED <<backend, shutdown, now, lock, instances, pc, tjob, nextId,
                 dispatched, releases>>


\* ------------------------------------------------------------ AsyncIOExecutor
\* base.py calls _do_submit_job(job, run_times, run_job_func); AsyncIOExecutor
\* declares _do_submit_job(self, job, job_submission_id, run_time), so inside it
\* job_submission_id is the run_times list and run_time is the closure.

\* The closure object that run_coroutine_job receives as `run_time`; it is not
\* an instant.
ClosureAsRunTime == 0 - 1

\* The task made from run_coroutine_job: one awaited call of job.func, no
\* misfire check, no loop over the run-times, no write to the job store.
AsyncIO_CoroutineTask(s, func_raises) ==
  /\ backend = "asyncio"
  /\ sub[s].phase = "task"
  /\ sub' = [sub EXCEPT ![s] =
               [@ EXCEPT !.phase = "returned",
                         !.calls = Append(@, [i |-> 0, raised |-> func_raises]),
                         !.events = <<JobExecutionEvent(OutcomeCode(func_raises),
                                        sub[s].job, ClosureAsRunTime)>>]]
  /\ UNCHANGED <<backend, shutdown, now, lock, instances, pc, tjob, nextId, store,
                 dispatched, releases>>

\* run_in_executor(None, run_job, ...): base.py defines no module-level
\* run_job, so what the future holds is left open: a result or an exception.
AsyncIO_RunInExecutor(s, future_raises) ==
  /\ backend \in AsyncIOBackends
  /\ sub[s].phase = "executor"
  /\ sub' = [sub EXCEPT ![s].phase =
               IF future_raises THEN "raised" ELSE "returned"]
  /\ UNCHANGED <<backend, shutdown, now, lock, instances, pc, tjob, nextId, store,
                 dispatched, releases>>

\* Positional arguments each handler of base.py accepts besides self.
RunJobSuccessArity == 3
RunJobErrorArity == 4

\* callback(f): _run_job_success is called with 4 positional arguments and
\* _run_job_error with 5, so either call raises TypeError before the handler's
\* body runs; the exception leaves the callback.
AsyncIO_Callback(s) ==
  /\ backend \in AsyncIOBackends
  /\ sub[s].phase \in {"returned", "raised"}
  /\ LET passed == IF sub[s].phase = "returned" THEN 4 ELSE 5
         accepted == IF sub[s].phase = "returned" THEN RunJobSuccessArity
                     ELSE RunJobErrorArity
     IN sub' = [sub EXCEPT ![s].phase =
                  IF passed > accepted THEN "TypeError" ELSE "no_handler"]
  /\ UNCHANGED <<backend, shutdown, now, lock, instances, pc, tjob, nextId, store,
                 dispatched, releases>>

\* ------------------------------------------------------------ specification
Next ==
  \/ Tick
  \/ \E t \in Threads, j \in JobIds : SubmitJob_Enter(t, j)
  \/ \E t \in Threads : SubmitJob_Check(t)
  \/ \E t \in Threads, run_times \in RunTimeLists : SubmitJob_Prepare(t, run_times)
  \/ \E t \in Threads : SubmitJob_Exit(t)
  \/ \E s \in SubIds, store_raises \in BOOLEAN : RunJob_Begin(s, store_raises)
  \/ \E s \in SubIds, func_raises \in BOOLEAN : RunJob_End(s, func_raises)
  \/ \E s \in SubIds : RunJobSuccess_Release(s)
  \/ \E s \in SubIds : RunJobSuccess_Finish(s)
  \/ \E s \in SubIds : RunJobError_Release(s)
  \/ \E s \in SubIds : RunJobError_Finish(s)
  \/ \E s \in SubIds, func_raises \in BOOLEAN : AsyncIO_CoroutineTask(s, func_raises)
  \/ \E s \in SubIds, future_raises \in BOOLEAN : AsyncIO_RunInExecutor(s, future_raises)
  \/ \E s \in SubIds : AsyncIO_Callback(s)

Spec == Init /\ [][Next]_vars

\* The behaviours of Spec in which no job-store update raises inside run_job:
\* every run_job call returns its events, so _run_job_error is never called.
NextStoreNeverRaises ==
  \/ Tick
  \/ \E t \in Threads, j \in JobIds : SubmitJob_Enter(t, j)
  \/ \E t \in Threads : SubmitJob_Check(t)
  \/ \E t \in Threads, run_times \in RunTimeLists : SubmitJob_Prepare(t, run_times)
  \/ \E t \in Threads : SubmitJob_Exit(t)
  \/ \E s \in SubIds : RunJob_Begin(s, FALSE)
  \/ \E s \in SubIds, func_raises \in BOOLEAN : RunJob_End(s, func_raises)
  \/ \E s \in SubIds : RunJobSuccess_Release(s)
  \/ \E s \in SubIds : RunJobSuccess_Finish(s)
  \/ \E s \in SubIds, func_raises \in BOOLEAN : AsyncIO_CoroutineTask(s, func_raises)
  \/ \E s \in SubIds, future_raises \in BOOLEAN : AsyncIO_RunInExecutor(s, future_raises)
  \/ \E s \in SubIds : AsyncIO_Callback(s)

SpecStoreNeverRaises == Init /\ [][NextStoreNeverRaises]_vars


\* ------------------------------------------------- failures and shutdown
\* add_job_submission raises inside _prepare_job_submission (the job store
\* fails): nothing is appended and the exception leaves the `with` block.  The
\* ceiling check has already read self._instances[job.id].
SubmitJob_PrepareFails(t) ==
  /\ pc[t] = "prepare"
  /\ pc' = [pc EXCEPT ![t] = "exit"]
  /\ tjob' = [tjob EXCEPT ![t] = "none"]
  /\ UNCHANGED <<backend, shutdown, now, lock, instances, nextId, store, sub,
                 dispatched, releases>>

\* BaseExecutor.shutdown(wait): the method has a docstring and no statement,
\* and AsyncIOExecutor does not override it.  It returns at once.  The call is
\* taken at a moment when no submit_job call is under way, so that every
\* submit_job seen after it was made after shutdown had returned.
Shutdown(wait) ==
  /\ shutdown = "no"
  /\ \A t \in Threads : pc[t] = "idle"
  /\ shutdown' = IF wait THEN "wait" ELSE "nowait"
  /\ UNCHANGED <<backend, now, lock, instances, pc, tjob, nextId, store, sub,
                 dispatched, releases>>

\* Spec with the trollius fallback among the backends, a job store that may
\* fail in add_job_submission, and a call of shutdown.
InitFaults ==
  /\ backend \in Backends \cup {TrolliusBackend}
  /\ shutdown = "no"
  /\ now = 10
  /\ lock = NoOwner
  /\ instances = [k \in {} |-> <<>>]
  /\ pc = [t \in Threads |-> "idle"]
  /\ tjob = [t \in Threads |-> "none"]
  /\ nextId = 1
  /\ store = [s \in SubIds |-> <<>>]
  /\ sub = [s \in SubIds |-> NoSubmission]
  /\ dispatched = [s \in SubIds |-> <<>>]
  /\ releases = [s \in SubIds |-> 0]

NextFaults ==
  \/ Next
  \/ \E t \in Threads : SubmitJob_PrepareFails(t)
  \/ \E wait \in BOOLEAN : Shutdown(wait)

SpecFaults == InitFaults /\ [][NextFaults]_vars


\* --------------------------------------------------- a repeated completion
\* The handlers of base.py are called by whatever backend subclasses it.  Here
\* the pool delivers the completion of a finished submission a second time,
\* with the same outcome: the handler is asked to release an id that is no
\* longer in the tracker.  One completion is repeated per behaviour.
CompletionRepeated(s) ==
  /\ backend = "pool"
  /\ sub[s].phase = "finished"
  /\ \A o \in SubIds :
       releases[o] = 1 => sub[o].phase \in {"success_released", "error_released", "finished"}
  /\ \A o \in SubIds : o < s => sub[o].phase # "finished"
  /\ sub' = [sub EXCEPT ![s].phase =
               IF Last(store[s]) = "success" THEN "returned" ELSE "raised"]
  /\ UNCHANGED <<backend, shutdown, now, lock, instances, pc, tjob, nextId,
                 store, dispatched, releases>>

\* The submission calls all come from one thread here: the repeated completion
\* races with the runners and the other handlers, not with a second submitter,
\* and the clock stands still.
SingleSubmitter == {t \in Threads : \A u \in Threads : t <= u}

NextRepeatedCompletion ==
  \/ \E t \in SingleSubmitter, j \in JobIds : SubmitJob_Enter(t, j)
  \/ \E t \in Threads : SubmitJob_Check(t)
  \/ \E t \in Threads, run_times \in RunTimeLists : SubmitJob_Prepare(t, run_times)
  \/ \E t \in Threads : SubmitJob_Exit(t)
  \/ \E s \in SubIds, store_raises \in BOOLEAN : RunJob_Begin(s, store_raises)
  \/ \E s \in SubIds, func_raises \in BOOLEAN : RunJob_End(s, func_raises)
  \/ \E s \in SubIds : RunJobSuccess_Release(s)
  \/ \E s \in SubIds : RunJobSuccess_Finish(s)
  \/ \E s \in SubIds : RunJobError_Release(s)
  \/ \E s \in SubIds : RunJobError_Finish(s)
  \/ \E s \in SubIds : CompletionRepeated(s)

InitPool ==
  /\ backend = "pool"
  /\ shutdown = "no"
  /\ now = 10
  /\ lock = NoOwner
  /\ instances = [k \in {} |-> <<>>]
  /\ pc = [t \in Threads |-> "idle"]
  /\ tjob = [t \in Threads |-> "none"]
  /\ nextId = 1
  /\ store = [s \in SubIds |-> <<>>]
  /\ sub = [s \in SubIds |-> NoSubmission]
  /\ dispatched = [s \in SubIds |-> <<>>]
  /\ releases = [s \in SubIds |-> 0]

SpecRepeatedCompletion == InitPool /\ [][NextRepeatedCompletion]_vars


\* ================================================================== claims
Admitted(s) == sub[s].phase # "none"

InTracker(s) == Contains(DefaultGet(instances, sub[s].job), s)

\* C1: for every job the number of submission ids in the Instance Tracker
\* never exceeds the job's max_instances, under every interleaving of
\* submit_job calls and completion callbacks.
C1_InstancesWithinCeiling ==
  \A j \in JobIds : Len(DefaultGet(instances, j)) <= Jobs[j].max_instances

\* A submitter stands at the ceiling check of a job with max_instances = 2
\* whose two slots are taken.
C1_Witness ==
  \E t \in Threads :
    /\ pc[t] = "check"
    /\ Jobs[tjob[t]].max_instances = 2
    /\ Len(DefaultGet(instances, tjob[t])) = 2

\* The backend's completion callback for s has run to its end.
CallbackDone(s) ==
  sub[s].phase \in {"finished", "TypeError", "ValueError", "no_handler"}

\* C2: every admitted submission is removed from the Instance Tracker, and
\* exactly once: when the backend's completion callback has ended, the id has
\* been removed once and is no longer in the tracker.
C2_ReleasedOnceByCompletion ==
  \A s \in SubIds : CallbackDone(s) => releases[s] = 1 /\ ~InTracker(s)

\* The part of C2 the handlers of base.py do guarantee, when the backend calls
\* them with the arguments they declare.
ReleasedOnceUnderPool ==
  \A s \in SubIds :
    /\ releases[s] <= 1
    /\ Admitted(s) /\ backend = "pool" =>
         (InTracker(s) <=> releases[s] = 0)
    /\ sub[s].phase = "finished" => releases[s] = 1

RECURSIVE Collapse(_)
\* seq without immediate repetitions of a state.
Collapse(seq) ==
  IF Len(seq) <= 1 THEN seq
  ELSE IF seq[1] = seq[2] THEN Collapse(Tail(seq))
  ELSE <<seq[1]>> \o Collapse(Tail(seq))

IsPrefix(p, q) == Len(p) <= Len(q) /\ SubSeq(q, 1, Len(p)) = p

Lifecycles ==
  {<<"pending", "running", "success">>,
   <<"pending", "running", "failure">>,
   <<"pending", "missed">>}

\* C3: the states written to a Submission Record are always a prefix of
\* pending -> running -> success, pending -> running -> failure or
\* pending -> missed (a state written twice in a row counts once).
C3_StateSequenceIsLifecyclePrefix ==
  \A s \in SubIds : \E l \in Lifecycles : IsPrefix(Collapse(store[s]), l)

\* C4: when the callable raised during a submission, after the completion
\* handler the record's final state is failure and the tracker no longer
\* holds the submission id.
C4_RaisingCallableEndsInFailure ==
  \A s \in SubIds :
    (/\ sub[s].phase = "finished"
     /\ \E k \in 1..Len(sub[s].calls) : sub[s].calls[k].raised)
    => Last(store[s]) = "failure" /\ ~InTracker(s)


\* The step taken by submission s is a call of job.func that raised.
CallableRaised(s) ==
  /\ Len(sub'[s].calls) = Len(sub[s].calls) + 1
  /\ Last(sub'[s].calls).raised

LoopHeadStep(s) == sub[s].phase = "run_job" /\ sub'[s] # sub[s]

\* now - run_time exceeds the job's grace time (never, when it has none).
BeyondGrace(s) ==
  \E g \in Jobs[sub[s].job].misfire_grace_time :
    now - sub[s].run_times[sub[s].i] > g

\* C6: for a run-time whose lateness exceeds misfire_grace_time run_job emits
\* exactly one missed event, does not call the callable and does not set the
\* record to running; a run-time within grace, or any run-time of a job
\* without misfire_grace_time, is not judged missed.
C6_MisfireSkipsRunTime ==
  [][\A s \in SubIds :
       LoopHeadStep(s) =>
         IF BeyondGrace(s)
         THEN /\ sub'[s].events = Append(sub[s].events,
                   [code |-> "missed", job_id |-> sub[s].job,
                    run_time |-> sub[s].run_times[sub[s].i]])
              /\ sub'[s].calls = sub[s].calls
              /\ sub'[s].i = sub[s].i + 1
              /\ sub'[s].phase # "calling"
              /\ store'[s] = store[s]
         ELSE /\ sub'[s].events = sub[s].events
              /\ sub'[s].phase \in {"calling", "raised"}]_vars

\* A run-time was skipped as missed, and the same submission ran another one.
C6_Witness ==
  \E s \in SubIds :
    /\ \E k \in 1..Len(sub[s].events) : sub[s].events[k].code = "missed"
    /\ Len(sub[s].calls) >= 1
    /\ "running" \in {store[s][k] : k \in 1..Len(store[s])}

\* C7: a submission whose only run-time is misfired ends, after the runner and
\* the completion handler, with its record in state missed (never running,
\* success or failure), one missed event and no call of the callable.
C7_MisfiredOnlyEndsMissed ==
  \A s \in SubIds :
    (/\ sub[s].phase = "finished"
     /\ Len(sub[s].run_times) = 1
     /\ Len(sub[s].events) = 1
     /\ sub[s].events[1].code = "missed")
    => /\ Last(store[s]) = "missed"
       /\ \A k \in 1..Len(store[s]) : store[s][k] \in {"pending", "missed"}
       /\ sub[s].calls = <<>>
       /\ Len(dispatched[s]) = 1

\* run_job has returned the events of submission s.
RunJobReturned(s) ==
  /\ backend = "pool"
  /\ \/ sub[s].phase \in {"returned", "success_released"}
     \/ sub[s].phase = "finished" /\ Last(store[s]) = "success"

\* Run-time k of s was handed to the callable (and with which outcome).
CalledAt(s, k, raised) ==
  \E c \in 1..Len(sub[s].calls) :
    sub[s].calls[c].i = k /\ sub[s].calls[c].raised = raised

\* C8: run_job processes the run-times in the order given and returns exactly
\* one event per run-time in that order: a missed event where the run-time
\* was skipped, an executed or error event where the callable ran.
C8_EventsFollowRunTimes ==
  \A s \in SubIds :
    backend = "pool" /\ Admitted(s) =>
      /\ Len(sub[s].events) <= Len(sub[s].run_times)
      /\ RunJobReturned(s) => Len(sub[s].events) = Len(sub[s].run_times)
      /\ \A k \in 1..Len(sub[s].events) :
           /\ sub[s].events[k].run_time = sub[s].run_times[k]
           /\ sub[s].events[k].code = "executed" <=> CalledAt(s, k, FALSE)
           /\ sub[s].events[k].code = "error" <=> CalledAt(s, k, TRUE)
           /\ sub[s].events[k].code = "missed" <=>
                ~CalledAt(s, k, TRUE) /\ ~CalledAt(s, k, FALSE)
      /\ \A c \in 1..Len(sub[s].calls) :
           /\ sub[s].calls[c].i <= Len(sub[s].events)
           /\ \A d \in 1..(c - 1) : sub[s].calls[d].i < sub[s].calls[c].i

\* run_job returned [executed-or-error(t1), missed(t2), executed-or-error(t3)]
\* for t1 < t2 < t3.
C8_Witness ==
  \E s \in SubIds :
    /\ sub[s].phase = "returned"
    /\ Len(sub[s].run_times) = 3
    /\ sub[s].run_times[1] < sub[s].run_times[2]
    /\ sub[s].run_times[2] < sub[s].run_times[3]
    /\ Len(sub[s].events) = 3
    /\ sub[s].events[1].code # "missed"
    /\ sub[s].events[2].code = "missed"
    /\ sub[s].events[3].code # "missed"

\* C9: once the completion handler of a submission has finished, the
\* scheduler's _dispatch_event has been called exactly once with the event of
\* every run-time the runner processed (all of them when run_job returned),
\* none dropped and none forwarded twice, also when the Job Runner invocation
\* itself failed after some run-times were processed.
C9_EveryRunTimeDispatchedOnce ==
  \A s \in SubIds :
    sub[s].phase = "finished" =>
      /\ dispatched[s] = sub[s].events
      /\ RunJobReturned(s) =>
           /\ Len(dispatched[s]) = Len(sub[s].run_times)
           /\ \A k \in 1..Len(dispatched[s]) :
                dispatched[s][k].run_time = sub[s].run_times[k]

\* Some submission of job j was admitted and has not been released.
InFlight(j) ==
  \E s \in SubIds : Admitted(s) /\ sub[s].job = j /\ releases[s] = 0

\* C10: for a job with max_instances = 1, a submit_job that reaches the
\* ceiling check while a submission of the job is in flight fails with
\* MaxInstancesReachedError (nothing is admitted); once the in-flight
\* submission has been released the next submit_job passes the check and is
\* admitted.
C10_SecondRejectedThenAdmittedAfterRelease ==
  [][\A t \in Threads :
       /\ (/\ pc[t] = "check"
           /\ pc'[t] # "check"
           /\ Jobs[tjob[t]].max_instances = 1)
          => IF InFlight(tjob[t])
             THEN pc'[t] = "idle" /\ nextId' = nextId /\ sub' = sub
             ELSE pc'[t] = "prepare"
       /\ (pc[t] = "prepare" /\ pc'[t] # "prepare")
          => /\ nextId' = nextId + 1
             /\ sub'[nextId].phase # "none"
             /\ sub'[nextId].job = tjob[t]
             /\ Contains(DefaultGet(instances', tjob[t]), nextId)]_vars

\* A submitter passed the ceiling check of the max_instances = 1 job after an
\* earlier submission of that job completed and released its slot.
C10_Witness ==
  \E t \in Threads :
    /\ pc[t] = "prepare"
    /\ Jobs[tjob[t]].max_instances = 1
    /\ \E s \in SubIds :
         sub[s].job = tjob[t] /\ releases[s] = 1 /\ sub[s].phase = "finished"

\* C11: a submit_job that fails with MaxInstancesReachedError changes nothing:
\* the tracker mapping is the same before and after (no id added, no entry
\* created or removed), no submission record is created and nothing is
\* dispatched.
C11_RejectionChangesNothing ==
  [][\A t \in Threads :
       (pc[t] = "check" /\ pc'[t] = "idle")
       => /\ instances' = instances
          /\ nextId' = nextId
          /\ store' = store
          /\ sub' = sub
          /\ dispatched' = dispatched
          /\ releases' = releases]_vars

\* A submitter stands at the ceiling check of the max_instances = 1 job while
\* the job's only slot is taken: the call is about to be rejected.
C11_Witness ==
  \E t \in Threads :
    /\ pc[t] = "check"
    /\ Jobs[tjob[t]].max_instances = 1
    /\ CeilingReached(instances, Jobs[tjob[t]])
    /\ Len(DefaultGet(instances, tjob[t])) = 1

\* C12: when the backend's dispatch step fails synchronously inside submit_job
\* (a coroutine callable on a backend that cannot run coroutines), then once
\* submit_job has raised the submission's record is marked "failure" and its
\* id is not in the tracker, so it takes no slot from later submissions.
C12_DispatchFailureFreesSlot ==
  (\A t \in Threads : pc[t] # "exit")
  => \A s \in SubIds :
       sub[s].phase = "dispatch_raised"
       => /\ Last(store[s]) = "failure"
          /\ ~InTracker(s)

\* C13: after shutdown the executor accepts no new submissions (no submit_job
\* is admitted any more), and shutdown(wait=True) returns only when every
\* in-flight submission has completed and the tracker is empty.
C13_ShutdownStopsAndDrains ==
  [][/\ shutdown # "no" => nextId' = nextId
     /\ (shutdown = "no" /\ shutdown' = "wait")
        => /\ \A j \in DOMAIN instances' : Len(instances'[j]) = 0
           /\ \A s \in SubIds : Admitted(s) => releases[s] = 1]_vars

\* The body of _run_job_success ran for submission s.
SuccessHandlerRan(s) ==
  \/ sub[s].phase = "success_released"
  \/ sub[s].phase = "finished" /\ Last(store[s]) = "success"

\* The body of _run_job_error ran for submission s.
ErrorHandlerRan(s) ==
  \/ sub[s].phase = "error_released"
  \/ sub[s].phase = "finished" /\ Last(store[s]) = "failure"

\* C14: for every dispatched submission of AsyncIOExecutor, on the coroutine
\* task path and on the run-in-executor path, once the done-callback has ended
\* exactly one of the two completion handlers has run: the success handler or
\* the error handler, never both and never neither.
C14_ExactlyOneHandlerRuns ==
  \A s \in SubIds :
    (backend \in AsyncIOBackends /\ CallbackDone(s))
    => (SuccessHandlerRan(s) # ErrorHandlerRan(s))

\* C15: whenever the executor lock is not held, no job id of the tracker maps
\* to an empty collection; no operation, a rejected or failing submit_job
\* included, leaves an empty entry behind.
C15_NoEmptyEntryOutsideLock ==
  lock = NoOwner => \A j \in DOMAIN instances : Len(instances[j]) > 0

\* The handler's lock block is run for a submission whose id is not in the
\* tracker entry of its job.
ReleaseOfNonMember(s) ==
  /\ backend = "pool"
  /\ sub[s].phase \in {"returned", "raised"}
  /\ sub'[s].phase # sub[s].phase
  /\ ~InTracker(s)

\* C16: releasing a submission id that is not in the tracker entry is never a
\* silent no-op: the completion handler fails with an error (ValueError), and
\* neither then nor later updates the record or forwards events.
C16_ReleaseOfNonMemberFails ==
  [][\A s \in SubIds :
       /\ ReleaseOfNonMember(s)
          => /\ sub'[s].phase = "ValueError"
             /\ releases' = releases
             /\ store' = store
             /\ dispatched' = dispatched
       /\ sub[s].phase = "ValueError"
          => /\ sub'[s] = sub[s]
             /\ store'[s] = store[s]
             /\ dispatched'[s] = dispatched[s]]_vars

\* A completion delivered a second time has failed in the handler: the
\* submission had been released and finished once, and the record and the
\* dispatched events are what the first completion left.
C16_Witness ==
  \E s \in SubIds :
    /\ sub[s].phase = "ValueError"
    /\ releases[s] = 1
    /\ Last(store[s]) = "success"
    /\ Len(dispatched[s]) = Len(sub[s].events)
    /\ Len(dispatched[s]) >= 1

\* C17: when the Job Runner invocation itself fails (the future carries an
\* exception), the completion callback's error handler releases the tracker
\* entry and then sets the record to "failure"; the record is not left
\* pending or running and is never set to success.
C17_RunnerFailureEndsInFailure ==
  [][\A s \in SubIds :
       /\ (sub[s].phase = "raised" /\ sub'[s].phase # "raised")
          => /\ sub'[s].phase = "error_released"
             /\ ~InTracker(s)'
             /\ releases'[s] = 1
       /\ (sub[s].phase = "error_released" /\ sub'[s].phase # "error_released")
          => /\ sub'[s].phase = "finished"
             /\ Last(store'[s]) = "failure"]_vars

\* C18: the blocking and the suspending Job Runner meet the same contract: for
\* the same job, run-times, clock and callable outcome, the suspending runner
\* returns the event sequence run_job returns (missed events included) and the
\* submission record goes through the same states.
C18_SuspendingRunnerMatchesBlocking ==
  [][\A s \in SubIds :
       (sub[s].phase = "task" /\ sub'[s].phase # "task")
       => LET blocking == RunJobFrom(Jobs[sub[s].job], sub[s].run_times, now,
                                     Last(sub'[s].calls).raised, 1)
          IN /\ sub'[s].events = blocking.events
             /\ store'[s] = <<"pending">> \o blocking.states]_vars

\* The part of a completion handler after its lock block: the record update
\* and, for _run_job_success, the forwarding of the events.
HandlerFinishStep(s) ==
  /\ sub[s].phase \in {"success_released", "error_released"}
  /\ sub'[s].phase = "finished"

\* C19: in the completion handler the submission is removed from the tracker
\* before its record is updated and before any event is forwarded, and the
\* update and the forwarding neither take nor need the executor lock; hence
\* whenever the scheduler has received an event of a submission, that
\* submission no longer counts against its job's ceiling.
C19_ReleasedBeforeUpdateAndDispatch ==
  [][\A s \in SubIds :
       /\ (HandlerFinishStep(s) \/ dispatched'[s] # dispatched[s])
          => /\ ~InTracker(s)
             /\ releases[s] = 1
             /\ instances' = instances
             /\ lock' = lock
       /\ Len(dispatched'[s]) > 0 => ~InTracker(s)']_vars

\* A submission of the max_instances = 1 job has been released and its
\* handler has not yet updated the record nor forwarded the events, while a
\* later submission of the same job already holds the slot and a submitter
\* holds the lock.
C19_Witness ==
  \E s \in SubIds, o \in SubIds :
    /\ sub[s].phase = "success_released"
    /\ Len(sub[s].events) >= 1
    /\ Len(dispatched[s]) = 0
    /\ Jobs[sub[s].job].max_instances = 1
    /\ sub[o].job = sub[s].job
    /\ InTracker(o)
    /\ lock # NoOwner

\* The next step of submitter t inside the `with` block of submit_job.
SubmitterStep(t) ==
  \/ SubmitJob_Check(t)
  \/ \E run_times \in RunTimeLists : SubmitJob_Prepare(t, run_times)
  \/ SubmitJob_Exit(t)

\* A completion callback of the pool stands before its handler's lock block.
AwaitsLock(s) == backend = "pool" /\ sub[s].phase \in {"returned", "raised"}

\* C20: no deadlock on the executor lock.  The lock is only ever held by a
\* thread inside submit_job's `with` block, that thread holds it whenever it
\* is inside and its next step never waits, so the block is left by return or
\* raise; a completion callback waits only while such a thread holds the lock
\* and can enter its lock block as soon as the lock is free, and the rest of
\* the handler waits for nothing - also when the completion arrives while the
\* submitting call is still inside the block.
C20_NoDeadlockOnLock ==
  /\ \A t \in Threads :
       pc[t] # "idle" => lock = <<"submit_job", t>> /\ ENABLED SubmitterStep(t)
  /\ lock # NoOwner
       => \E t \in Threads : lock = <<"submit_job", t>> /\ pc[t] # "idle"
  /\ \A s \in SubIds :
       /\ (AwaitsLock(s) /\ lock = NoOwner)
          => ENABLED (RunJobSuccess_Release(s) \/ RunJobError_Release(s))
       /\ sub[s].phase = "success_released" => ENABLED RunJobSuccess_Finish(s)
       /\ sub[s].phase = "error_released" => ENABLED RunJobError_Finish(s)

\* The runner of a submission has returned while the submit_job call that
\* dispatched it is still inside the `with` block: the completion callback
\* waits for the lock its own submitter holds.
C20_Witness ==
  \E t \in Threads, s \in SubIds :
    /\ pc[t] = "exit"
    /\ lock = <<"submit_job", t>>
    /\ s + 1 = nextId
    /\ AwaitsLock(s)
    /\ InTracker(s)

=============================================================================
